---- MODULE Spec2Model ----
(***************************************************************************)
(* Model of fileengine/client.py: the ManagedFiles adapter.  The state is  *)
(* the Session defaults of one adapter instance, its channel, the caller's *)
(* position with respect to a with block on it, the threads that call the  *)
(* adapter at the same time (specification ConcSpec), and the record       *)
(* of the last public call made on it: its inputs, the remote calls it     *)
(* issued (in order, each with the AuthenticationContext it carried), the  *)
(* value it returned and the exception it let escape, if any.  The remote  *)
(* service is an oracle: every response is drawn from a small set.         *)
(***************************************************************************)
EXTENDS Integers, Sequences, FiniteSets, TLC

VARIABLES user, tenant, roles, claims, channel, with_block,
          op, inp, calls, ret, exc, threads

vars == <<user, tenant, roles, claims, channel, with_block,
          op, inp, calls, ret, exc, threads>>
session == <<user, tenant, roles, claims>>

\* ------------------------------------------------------------------ bounds

\* Most entries a directory listing response carries.
MaxEntries == 2
\* Longest claim list handed to _create_auth_context.
MaxClaims == 2
\* Longest version list a ListVersions response carries.
MaxVersions == 2
\* Largest back offset handed to get.
MaxBack == 2
\* Most calls of close and __exit__ made on one adapter.
MaxCloses == 2
\* Threads that call one adapter at the same time.
NThreads == 2

\* ------------------------------------------------------ Python values

\* An optional argument: <<>> is None (argument omitted), <<v>> is the value v.
None == <<>>
Some(v) == <<v>>
IsNone(x) == x = <<>>
Val(x) == x[1]

\* A claim list element, tagged with its Python type.  s: the string of a
\* str; t: the items of a tuple; d: the items of a dict, in insertion order.
ClaimStr(s) == [s |-> s, kind |-> "str", t |-> <<>>, d |-> <<>>]
ClaimTuple(t) == [s |-> "", kind |-> "tuple", t |-> t, d |-> <<>>]
ClaimDict(d) == [s |-> "", kind |-> "dict", t |-> <<>>, d |-> d]
ClaimInt == [s |-> "", kind |-> "int", t |-> <<>>, d |-> <<>>]

\* Return values, tagged with their Python type.
PyBool(b) == [b |-> b, tag |-> "bool"]
PyStr(s) == [s |-> s, tag |-> "str"]
PyNone == [tag |-> "NoneType"]
PyList(l) == [tag |-> "list", items |-> l]
PyDict(d) == [tag |-> "dict", items |-> d]
PyFloat == [tag |-> "float"]
PyFalse == PyBool(FALSE)

\* A Python dict: its items <<key, value>> in insertion order.
DictKeys(d) == [i \in 1..Len(d) |-> d[i][1]]
DictHas(d, k) == \E i \in 1..Len(d) : d[i][1] = k
DictGet(d, k) == d[CHOOSE i \in 1..Len(d) : d[i][1] = k][2]

\* d[k] = v: an existing key keeps its place and takes the new value, a new
\* key is appended.
DictSet(d, k, v) ==
  IF DictHas(d, k)
  THEN [i \in 1..Len(d) |-> IF d[i][1] = k THEN <<k, v>> ELSE d[i]]
  ELSE Append(d, <<k, v>>)

\* d.update(e): every item of e is set in d, in e's order.
RECURSIVE DictUpdate(_, _)
DictUpdate(d, e) ==
  IF e = <<>> THEN d
  ELSE DictUpdate(DictSet(d, e[1][1], e[1][2]), Tail(e))

\* ------------------------------------------------- _create_auth_context

\* (Variant: the first value set for a key is kept, as with dict.setdefault.)
ClaimStepFirstWins(m, claim) ==
  IF claim.kind = "str"
  THEN (IF DictHas(m, claim.s) THEN m ELSE DictSet(m, claim.s, claim.s))
  ELSE IF claim.kind = "dict"
       THEN DictUpdate(m, SelectSeq(claim.d, LAMBDA p : ~DictHas(m, p[1])))
  ELSE IF claim.kind = "tuple" /\ Len(claim.t) = 2
       THEN (IF DictHas(m, claim.t[1]) THEN m
             ELSE DictSet(m, claim.t[1], claim.t[2]))
  ELSE m

\* One pass of the loop body over a claim: the isinstance chain, which has no
\* else branch, so that an element of any other shape leaves the map as it is.
ClaimStep(m, claim) ==
  IF claim.kind = "str" THEN DictSet(m, claim.s, claim.s)
  ELSE IF claim.kind = "dict" THEN DictUpdate(m, claim.d)
  ELSE IF claim.kind = "tuple" /\ Len(claim.t) = 2
       THEN DictSet(m, claim.t[1], claim.t[2])
  ELSE m

\* The loop over actual_claims, from claims_map = {}.
RECURSIVE ClaimsLoop(_, _)
ClaimsLoop(m, cl) ==
  IF cl = <<>> THEN m ELSE ClaimsLoop(ClaimStep(m, cl[1]), Tail(cl))

claims_map(actual_claims) ==
  IF actual_claims # <<>> THEN ClaimsLoop(<<>>, actual_claims) ELSE <<>>

\* user or self.user
actual_user(u) == IF ~IsNone(u) /\ Val(u) # "" THEN Val(u) ELSE user
\* (Variant: an omitted tenant becomes the empty string.)
actual_tenant_empty(t) == IF ~IsNone(t) THEN Val(t) ELSE ""
\* tenant if tenant is not None else self.tenant
actual_tenant(t) == IF ~IsNone(t) THEN Val(t) ELSE tenant
\* roles if roles is not None else self.roles
actual_roles(r) == IF ~IsNone(r) THEN Val(r) ELSE roles
\* claims if claims is not None else self.claims
actual_claims(c) == IF ~IsNone(c) THEN Val(c) ELSE claims

\* The per-call override arguments (user, tenant, roles, claims) as a record.
Overrides(u, t, r, c) == [user |-> u, tenant |-> t, roles |-> r, claims |-> c]
NoOverrides == Overrides(None, None, None, None)

_create_auth_context(ov) ==
  [user |-> actual_user(ov.user),
   tenant |-> actual_tenant(ov.tenant),
   roles |-> actual_roles(ov.roles),
   claims |-> claims_map(actual_claims(ov.claims))]

\* ------------------------------------------------------------ remote calls

\* fileservice_pb2.FileType, as FileType republishes it.
REGULAR_FILE == 0
DIRECTORY == 1
SYMLINK == 2

\* One remote call as the stub saw it: the method, the AuthenticationContext
\* and the other fields of the request, and the response the service gave
\* (rpc_error: the call raised grpc.RpcError instead of returning).
Call(rpc, auth, req, resp) ==
  [rpc |-> rpc, auth |-> auth, req |-> req, resp |-> resp]

\* What a method did: the remote calls it issued, and either the value it
\* returned (exc = "none") or the exception that left it.
Return(cs, v) == [calls |-> cs, ret |-> v, exc |-> "none"]
Raise(cs, e) == [calls |-> cs, ret |-> PyNone, exc |-> e]

\* (Variant: a call that raised is made a second time.)
InvokeRetry(c, rest) ==
  IF c.resp.rpc_error THEN Raise(<<c, c>>, "RpcError") ELSE rest
\* response = self.stub.<rpc>(request): the call raises or hands the response
\* to the rest of the try block.
Invoke(c, rest) == IF c.resp.rpc_error THEN Raise(<<c>>, "RpcError") ELSE rest

\* (Variant: no except clause.)
NoExcept(body, failure) == body
\* try: <body> except grpc.RpcError: return <failure>
Except(body, failure) ==
  IF body.exc = "RpcError" THEN Return(body.calls, failure) ELSE body

\* The outcome r of the rest of a method that has already issued the calls cs.
After(cs, r) == [r EXCEPT !.calls = cs \o r.calls]

\* --------------------------------------------------- the remote service

\* Responses that carry a success flag only.
SuccessResponses ==
  {[rpc_error |-> e, success |-> ok] : e \in {FALSE}, ok \in BOOLEAN}
    \cup {[rpc_error |-> TRUE, success |-> FALSE]}

\* MakeDirectory, Touch: success and the new identifier.
UidResponses ==
  {[rpc_error |-> FALSE, success |-> TRUE, uid |-> <<"uid", "9">>],
   [rpc_error |-> FALSE, success |-> FALSE, uid |-> <<"">>],
   [rpc_error |-> FALSE, success |-> FALSE, uid |-> <<"uid", "9">>],
   [rpc_error |-> TRUE, success |-> FALSE, uid |-> <<"">>]}

\* Stat: success and the FileInfo.
StatInfo(type) ==
  [type |-> type, name |-> "n1", created_at |-> 10, modified_at |-> 20]
StatResponses ==
  {[rpc_error |-> FALSE, success |-> TRUE, info |-> StatInfo(ty)] :
     ty \in {REGULAR_FILE, DIRECTORY, SYMLINK}}
    \cup {[rpc_error |-> FALSE, success |-> FALSE, info |-> StatInfo(ty)] :
            ty \in {REGULAR_FILE, DIRECTORY}}
    \cup {[rpc_error |-> TRUE, success |-> FALSE, info |-> StatInfo(REGULAR_FILE)]}

\* Exists: the exists flag.
ExistsResponses ==
  {[rpc_error |-> FALSE, exists |-> TRUE],
   [rpc_error |-> FALSE, exists |-> FALSE],
   [rpc_error |-> TRUE, exists |-> FALSE]}

\* CheckPermission: success and has_permission, independent of each other.
CheckPermissionResponses ==
  {[rpc_error |-> FALSE, success |-> ok, has_permission |-> h] :
     ok \in BOOLEAN, h \in BOOLEAN}
    \cup {[rpc_error |-> TRUE, success |-> FALSE, has_permission |-> FALSE]}

\* GetMetadata, GetMetadataForVersion: success and the value.
ValueResponses ==
  {[rpc_error |-> FALSE, success |-> TRUE, value |-> "val"],
   [rpc_error |-> FALSE, success |-> FALSE, value |-> ""],
   [rpc_error |-> TRUE, success |-> FALSE, value |-> ""]}

\* GetAllMetadata, GetAllMetadataForVersion: success and the metadata map.
MetadataResponses ==
  {[rpc_error |-> FALSE, success |-> TRUE, metadata |-> << <<"k", "val">> >>],
   [rpc_error |-> FALSE, success |-> TRUE, metadata |-> <<>>],
   [rpc_error |-> FALSE, success |-> FALSE, metadata |-> <<>>],
   [rpc_error |-> TRUE, success |-> FALSE, metadata |-> <<>>]}

\* GetStorageUsage: success and the four figures.
Usage(t, u) ==
  [total_space |-> t, used_space |-> u, available_space |-> t - u,
   usage_percentage |-> IF t = 0 THEN 0 ELSE (100 * u) \div t]
StorageUsageResponses ==
  {[rpc_error |-> FALSE, success |-> TRUE, usage |-> Usage(1000, 500)],
   [rpc_error |-> FALSE, success |-> FALSE, usage |-> Usage(0, 0)],
   [rpc_error |-> TRUE, success |-> FALSE, usage |-> Usage(0, 0)]}

\* RestoreToVersion: success and the version restored to.
RestoreResponses ==
  {[rpc_error |-> FALSE, success |-> TRUE, restored_version |-> "v1"],
   [rpc_error |-> FALSE, success |-> FALSE, restored_version |-> ""],
   [rpc_error |-> TRUE, success |-> FALSE, restored_version |-> ""]}

\* ListVersions: success and the version timestamps, latest first: a file
\* with n versions has "v<n>", ..., "v1".
VersionList(n) == [i \in 1..n |-> "v" \o ToString(n - i + 1)]
VersionLists == {VersionList(n) : n \in 0..MaxVersions}
VersionsResponses ==
  {[rpc_error |-> FALSE, success |-> TRUE, versions |-> vs] : vs \in VersionLists}
    \cup {[rpc_error |-> FALSE, success |-> FALSE, versions |-> <<>>],
          [rpc_error |-> TRUE, success |-> FALSE, versions |-> <<>>]}

\* GetVersion: success and the bytes.
DataResponses ==
  {[rpc_error |-> FALSE, success |-> TRUE, data |-> d] : d \in {<<>>, <<7, 8>>}}
    \cup {[rpc_error |-> FALSE, success |-> FALSE, data |-> d] : d \in {<<>>, <<7, 8>>}}
    \cup {[rpc_error |-> TRUE, success |-> FALSE, data |-> <<>>]}

\* ------------------------------------------------- single-call operations

\* (Variant: the identifier is returned whatever the success flag says.)
mkdir_unchecked(parent_uuid, name, ov, resp) ==
  LET auth_context == _create_auth_context(ov)
      request == Call("MakeDirectory", auth_context,
                      [name |-> name, parent_uid |-> parent_uuid], resp)
  IN Except(Invoke(request, Return(<<request>>, PyStr(resp.uid))), PyFalse)

mkdir(parent_uuid, name, ov, resp) ==
  LET auth_context == _create_auth_context(ov)
      request == Call("MakeDirectory", auth_context,
                      [name |-> name, parent_uid |-> parent_uuid], resp)
  IN Except(Invoke(request,
                   IF resp.success THEN Return(<<request>>, PyStr(resp.uid))
                   ELSE Return(<<request>>, PyFalse)),
            PyFalse)

entity_exists(entity_uid, resp) ==
  LET request == Call("Exists", _create_auth_context(NoOverrides),
                      [uid |-> entity_uid], resp)
  IN Except(Invoke(request, Return(<<request>>, PyBool(resp.exists))), PyFalse)

is_dir(uid, ov, resp) ==
  LET auth_context == _create_auth_context(ov)
      request == Call("Stat", auth_context, [uid |-> uid], resp)
  IN Except(Invoke(request,
                   IF resp.success
                   THEN Return(<<request>>, PyBool(resp.info.type = DIRECTORY))
                   ELSE Return(<<request>>, PyFalse)),
            PyFalse)

touch(container_uuid, name, ov, resp) ==
  LET auth_context == _create_auth_context(ov)
      request == Call("Touch", auth_context,
                      [name |-> name, parent_uid |-> container_uuid], resp)
  IN Except(Invoke(request,
                   IF resp.success THEN Return(<<request>>, PyStr(resp.uid))
                   ELSE Return(<<request>>, PyFalse)),
            PyFalse)

\* payload: None, bytes or a str (its code points).
PayloadBytes(b) == [kind |-> "bytes", items |-> b]
PayloadStr(cs) == [kind |-> "str", items |-> cs]

\* str.encode('utf-8'), for code points below 2048.
RECURSIVE Utf8(_)
Utf8(cs) ==
  IF cs = <<>> THEN <<>>
  ELSE (IF cs[1] < 128 THEN <<cs[1]>>
        ELSE <<192 + (cs[1] \div 64), 128 + (cs[1] % 64)>>) \o Utf8(Tail(cs))

put(uid, payload, return_open, ov, resp) ==
  IF return_open THEN Raise(<<>>, "NotImplementedError")
  ELSE
    LET data == IF IsNone(payload) THEN <<>>
                ELSE IF Val(payload).kind = "str" THEN Utf8(Val(payload).items)
                ELSE Val(payload).items
        auth_context == _create_auth_context(ov)
        request == Call("PutFile", auth_context, [uid |-> uid, data |-> data], resp)
    IN Except(Invoke(request,
                     IF resp.success THEN Return(<<request>>, PyFloat)
                     ELSE Return(<<request>>, PyFalse)),
              PyFalse)

\* An identifier is the sequence of its '-'-separated parts;
\* uid.split('-')[-1] if '-' in uid else uid
LastPart(uid) == <<uid[Len(uid)]>>

\* (Variant: the entries are built newest last.)
revisions_reversed(uid, ov, resp) ==
  LET auth_context == _create_auth_context(ov)
      request == Call("ListVersions", auth_context, [uid |-> uid], resp)
      n == Len(resp.versions)
      result == [i \in 1..n |->
                   [user |-> auth_context.user, name |-> LastPart(uid),
                    version |-> resp.versions[n + 1 - i]]]
  IN Except(Invoke(request,
                   IF resp.success THEN Return(<<request>>, PyList(result))
                   ELSE Return(<<request>>, PyList(<<>>))),
            PyList(<<>>))
revisions(uid, ov, resp) ==
  LET auth_context == _create_auth_context(ov)
      request == Call("ListVersions", auth_context, [uid |-> uid], resp)
      result == [i \in 1..Len(resp.versions) |->
                   [user |-> auth_context.user, name |-> LastPart(uid),
                    version |-> resp.versions[i]]]
  IN Except(Invoke(request,
                   IF resp.success THEN Return(<<request>>, PyList(result))
                   ELSE Return(<<request>>, PyList(<<>>))),
            PyList(<<>>))

PyDatetime(ts) == [tag |-> "datetime", ts |-> ts]

get_file_mtime(uid, ov, resp) ==
  LET auth_context == _create_auth_context(ov)
      request == Call("Stat", auth_context, [uid |-> uid], resp)
  IN Except(Invoke(request,
                   IF resp.success
                   THEN Return(<<request>>, PyDatetime(resp.info.modified_at))
                   ELSE Return(<<request>>, PyNone)),
            PyNone)

get_folder_cdate(uid, ov, resp) ==
  LET auth_context == _create_auth_context(ov)
      request == Call("Stat", auth_context, [uid |-> uid], resp)
  IN Except(Invoke(request,
                   IF resp.success
                   THEN Return(<<request>>, PyDatetime(resp.info.created_at))
                   ELSE Return(<<request>>, PyNone)),
            PyNone)

file_name(uid, ov, resp) ==
  LET auth_context == _create_auth_context(ov)
      request == Call("Stat", auth_context, [uid |-> uid], resp)
  IN Except(Invoke(request,
                   IF resp.success
                   THEN Return(<<request>>, PyList(<<resp.info.name>>))
                   ELSE Return(<<request>>, PyList(<<>>))),
            PyList(<<>>))

copy(source_uid, destination_uid, ov, resp) ==
  LET auth_context == _create_auth_context(ov)
      request == Call("Copy", auth_context,
                      [source_uid |-> source_uid,
                       destination_parent_uid |-> destination_uid], resp)
  IN Except(Invoke(request, Return(<<request>>, PyBool(resp.success))), PyFalse)

rename(uid, new_name, ov, resp) ==
  LET auth_context == _create_auth_context(ov)
      request == Call("Rename", auth_context,
                      [uid |-> uid, new_name |-> new_name], resp)
  IN Except(Invoke(request, Return(<<request>>, PyBool(resp.success))), PyFalse)

set_metadata_value(uid, key, value, ov, resp) ==
  LET auth_context == _create_auth_context(ov)
      request == Call("SetMetadata", auth_context,
                      [uid |-> uid, value |-> value, key |-> key], resp)
  IN Except(Invoke(request, Return(<<request>>, PyBool(resp.success))), PyFalse)

get_metadata_value(uid, name, ov, resp) ==
  LET auth_context == _create_auth_context(ov)
      request == Call("GetMetadata", auth_context, [uid |-> uid, key |-> name], resp)
  IN Except(Invoke(request,
                   IF resp.success THEN Return(<<request>>, PyStr(resp.value))
                   ELSE Return(<<request>>, PyNone)),
            PyNone)

get_metadata_values(uid, ov, resp) ==
  LET auth_context == _create_auth_context(ov)
      request == Call("GetAllMetadata", auth_context, [uid |-> uid], resp)
  IN Except(Invoke(request,
                   IF resp.success THEN Return(<<request>>, PyDict(resp.metadata))
                   ELSE Return(<<request>>, PyDict(<<>>))),
            PyDict(<<>>))

delete_metadata_value(uid, name, ov, resp) ==
  LET auth_context == _create_auth_context(ov)
      request == Call("DeleteMetadata", auth_context,
                      [uid |-> uid, key |-> name], resp)
  IN Except(Invoke(request, Return(<<request>>, PyBool(resp.success))), PyFalse)

get_metadata_for_version(uid, version, key, ov, resp) ==
  LET auth_context == _create_auth_context(ov)
      request == Call("GetMetadataForVersion", auth_context,
                      [uid |-> uid, key |-> key, version_timestamp |-> version],
                      resp)
  IN Except(Invoke(request,
                   IF resp.success THEN Return(<<request>>, PyStr(resp.value))
                   ELSE Return(<<request>>, PyNone)),
            PyNone)

get_all_metadata_for_version(uid, version, ov, resp) ==
  LET auth_context == _create_auth_context(ov)
      request == Call("GetAllMetadataForVersion", auth_context,
                      [uid |-> uid, version_timestamp |-> version], resp)
  IN Except(Invoke(request,
                   IF resp.success THEN Return(<<request>>, PyDict(resp.metadata))
                   ELSE Return(<<request>>, PyDict(<<>>))),
            PyDict(<<>>))

grant_permission(resource_uid, principal, permission, ov, resp) ==
  LET auth_context == _create_auth_context(ov)
      request == Call("GrantPermission", auth_context,
                      [resource_uid |-> resource_uid, principal |-> principal,
                       permission |-> permission], resp)
  IN Except(Invoke(request, Return(<<request>>, PyBool(resp.success))), PyFalse)

revoke_permission(resource_uid, principal, permission, ov, resp) ==
  LET auth_context == _create_auth_context(ov)
      request == Call("RevokePermission", auth_context,
                      [resource_uid |-> resource_uid, principal |-> principal,
                       permission |-> permission], resp)
  IN Except(Invoke(request, Return(<<request>>, PyBool(resp.success))), PyFalse)

\* The response's success flag is not read.
check_permission(resource_uid, required_permission, ov, resp) ==
  LET auth_context == _create_auth_context(ov)
      request == Call("CheckPermission", auth_context,
                      [resource_uid |-> resource_uid,
                       required_permission |-> required_permission], resp)
  IN Except(Invoke(request, Return(<<request>>, PyBool(resp.has_permission))),
            PyFalse)

\* tenant if tenant else self.tenant
request_tenant(t) == IF ~IsNone(t) /\ Val(t) # "" THEN Val(t) ELSE tenant

get_storage_usage(ov, resp) ==
  LET auth_context == _create_auth_context(ov)
      request == Call("GetStorageUsage", auth_context,
                      [tenant |-> request_tenant(ov.tenant)], resp)
  IN Except(Invoke(request,
                   IF resp.success THEN Return(<<request>>, PyDict(resp.usage))
                   ELSE Return(<<request>>, PyNone)),
            PyNone)

purge_old_versions(file_uid, keep_count, ov, resp) ==
  LET auth_context == _create_auth_context(ov)
      request == Call("PurgeOldVersions", auth_context,
                      [uid |-> file_uid, keep_count |-> keep_count], resp)
  IN Except(Invoke(request, Return(<<request>>, PyBool(resp.success))), PyFalse)

trigger_sync(ov, resp) ==
  LET auth_context == _create_auth_context(ov)
      request == Call("TriggerSync", auth_context,
                      [tenant |-> request_tenant(ov.tenant)], resp)
  IN Except(Invoke(request, Return(<<request>>, PyBool(resp.success))), PyFalse)

undelete_file(file_uid, ov, resp) ==
  LET auth_context == _create_auth_context(ov)
      request == Call("UndeleteFile", auth_context, [uid |-> file_uid], resp)
  IN Except(Invoke(request, Return(<<request>>, PyBool(resp.success))), PyFalse)

restore_to_version(file_uid, version_timestamp, ov, resp) ==
  LET auth_context == _create_auth_context(ov)
      request == Call("RestoreToVersion", auth_context,
                      [uid |-> file_uid, version_timestamp |-> version_timestamp],
                      resp)
  IN Except(Invoke(request,
                   IF resp.success
                   THEN Return(<<request>>, PyStr(resp.restored_version))
                   ELSE Return(<<request>>, PyNone)),
            PyNone)

\* ---------------------------------------------------- composite operations

\* The identity of auth_context handed on to a helper method:
\* user=auth_context.user, tenant=auth_context.tenant,
\* roles=auth_context.roles, claims=list(auth_context.claims.keys())
KeysList(d) == [i \in 1..Len(d) |-> ClaimStr(d[i][1])]
SubCallOverrides(auth_context) ==
  Overrides(Some(auth_context.user), Some(auth_context.tenant),
            Some(auth_context.roles), Some(KeysList(auth_context.claims)))

\* io.BytesIO(): write at the position, which moves past what was written.
BytesIO == [data |-> <<>>, pos |-> 0]
Write(buf, b) ==
  [data |-> SubSeq(buf.data, 1, buf.pos) \o b
              \o SubSeq(buf.data, buf.pos + Len(b) + 1, Len(buf.data)),
   pos |-> buf.pos + Len(b)]
Seek(buf, n) == [buf EXCEPT !.pos = n]
PyBytesIO(buf) == [tag |-> "BytesIO", data |-> buf.data, pos |-> buf.pos]

\* versions[back] of a Python list: a negative index counts from the end, an
\* index outside the list raises IndexError.
InRange(l, i) == (0 - Len(l)) <= i /\ i < Len(l)
\* (Variant: a non-negative index counts from the end.)
ItemFromEnd(l, i) == IF i >= 0 THEN l[Len(l) - i] ELSE l[Len(l) + i + 1]
Item(l, i) == IF i >= 0 THEN l[i + 1] ELSE l[Len(l) + i + 1]

\* (Variant: the guard is len(versions) <= back alone.)
get_unguarded(uid, back, ov, rv, gv) ==
  LET auth_context == _create_auth_context(ov)
      listed == revisions(uid, SubCallOverrides(auth_context), rv)
      versions == listed.ret.items
      request == Call("GetVersion", auth_context,
                      [uid |-> uid,
                       version_timestamp |-> Item(versions, back).version], gv)
      fetched == Except(Invoke(request,
                               IF gv.success
                               THEN Return(<<request>>,
                                           PyBytesIO(Seek(Write(BytesIO, gv.data), 0)))
                               ELSE Return(<<request>>, PyFalse)),
                        PyFalse)
  IN IF Len(versions) <= back THEN Return(listed.calls, PyFalse)
     ELSE IF ~InRange(versions, back) THEN Raise(listed.calls, "IndexError")
     ELSE After(listed.calls, fetched)
\* rv: the ListVersions response; gv: the GetVersion response.
get(uid, back, ov, rv, gv) ==
  LET auth_context == _create_auth_context(ov)
      listed == revisions(uid, SubCallOverrides(auth_context), rv)
      versions == listed.ret.items
      request == Call("GetVersion", auth_context,
                      [uid |-> uid,
                       version_timestamp |-> Item(versions, back).version], gv)
      fetched == Except(Invoke(request,
                               IF gv.success
                               THEN Return(<<request>>,
                                           PyBytesIO(Seek(Write(BytesIO, gv.data), 0)))
                               ELSE Return(<<request>>, PyFalse)),
                        PyFalse)
  IN IF listed.exc # "none" THEN listed
     ELSE IF versions = <<>> \/ Len(versions) <= back
          THEN Return(listed.calls, PyFalse)
     ELSE IF ~InRange(versions, back) THEN Raise(listed.calls, "IndexError")
     ELSE After(listed.calls, fetched)

\* (Variant: the rename is made and its result dropped.)
move_drops_rename(source_uid, destination_uid, new_name, ov, mv, rn) ==
  LET auth_context == _create_auth_context(ov)
      request == Call("Move", auth_context,
                      [source_uid |-> source_uid,
                       destination_parent_uid |-> destination_uid], mv)
  IN Except(Invoke(request,
                   IF mv.success /\ ~IsNone(new_name) /\ Val(new_name) # ""
                   THEN Return(<<request>>
                                 \o rename(source_uid, Val(new_name), ov, rn).calls,
                               PyBool(mv.success))
                   ELSE Return(<<request>>, PyBool(mv.success))),
            PyFalse)

\* new_name: None or a string.  mv: the Move response; rn: the Rename response.
move(source_uid, destination_uid, new_name, ov, mv, rn) ==
  LET auth_context == _create_auth_context(ov)
      request == Call("Move", auth_context,
                      [source_uid |-> source_uid,
                       destination_parent_uid |-> destination_uid], mv)
  IN Except(Invoke(request,
                   IF mv.success /\ ~IsNone(new_name) /\ Val(new_name) # ""
                   THEN After(<<request>>,
                              rename(source_uid, Val(new_name), ov, rn))
                   ELSE Return(<<request>>, PyBool(mv.success))),
            PyFalse)

\* (Variant: the Stat answer is not consulted and the removal is always
\* RemoveFile.)
remove_as_file(uid, ov, st, rm) ==
  LET auth_context == _create_auth_context(ov)
      info_req == Call("Stat", auth_context, [uid |-> uid], st)
      request == Call("RemoveFile", auth_context, [uid |-> uid], rm)
  IN Except(Invoke(info_req,
                   After(<<info_req>>,
                         Invoke(request,
                                Return(<<request>>, PyBool(rm.success))))),
            PyFalse)

\* st: the Stat response; rm: the response of the removal call.
remove(uid, ov, st, rm) ==
  LET auth_context == _create_auth_context(ov)
      info_req == Call("Stat", auth_context, [uid |-> uid], st)
      request == Call(IF st.success /\ st.info.type = DIRECTORY
                      THEN "RemoveDirectory" ELSE "RemoveFile",
                      auth_context, [uid |-> uid], rm)
  IN Except(Invoke(info_req,
                   After(<<info_req>>,
                         Invoke(request,
                                Return(<<request>>, PyBool(rm.success))))),
            PyFalse)

\* ListDirectory, ListDirectoryWithDeleted: success and the entries.
FileEntry == [uid |-> <<"0a", "f1">>, type |-> REGULAR_FILE, name |-> "a.txt"]
DirEntry == [uid |-> <<"d2">>, type |-> DIRECTORY, name |-> "sub"]
LinkEntry == [uid |-> <<"l3">>, type |-> SYMLINK, name |-> "lnk"]
Entries == {FileEntry, DirEntry, LinkEntry}
EntryLists == UNION {[1..n -> Entries] : n \in 0..MaxEntries}
ListResponses ==
  {[rpc_error |-> FALSE, success |-> TRUE, entries |-> es] : es \in EntryLists}
    \cup {[rpc_error |-> FALSE, success |-> FALSE, entries |-> <<>>],
          [rpc_error |-> TRUE, success |-> FALSE, entries |-> <<>>]}

\* What the service answers to the two follow-up calls dir makes for an entry:
\* rv to ListVersions and st to Stat.  No call is made for an entry that is no
\* regular file, and no Stat call when no version is listed.
NoResponse == [rpc_error |-> TRUE, success |-> FALSE]
EnrichResponses(entry) ==
  IF entry.type # REGULAR_FILE THEN {[rv |-> NoResponse, st |-> NoResponse]}
  ELSE {[rv |-> r, st |-> NoResponse] :
          r \in {v \in VersionsResponses : v.versions = <<>>}}
       \cup {[rv |-> r, st |-> t] :
               r \in {v \in VersionsResponses : v.versions = VersionList(2)},
               t \in {x \in StatResponses : x.info.type = REGULAR_FILE}}
RECURSIVE EnrichFor(_)
EnrichFor(entries) ==
  IF entries = <<>> THEN {<<>>}
  ELSE {<<h>> \o t : h \in EnrichResponses(entries[1]),
                     t \in EnrichFor(Tail(entries))}

\* The loop of dir over response.entries from entry i on; cs: the calls issued
\* so far, result: the items built so far, enrich[i]: the answers for entry i.
RECURSIVE DirLoop(_, _, _, _, _, _)
DirLoop(auth_context, entries, enrich, i, cs, result) ==
  IF i > Len(entries) THEN Return(cs, PyList(result))
  ELSE
    LET entry == entries[i]
        item == << <<"uid", PyStr(entry.uid)>>,
                   <<"name", PyStr(entry.name)>>,
                   <<"creator", PyStr(auth_context.user)>>,
                   <<"is_container",
                     PyStr(IF entry.type = DIRECTORY THEN "True" ELSE "False")>> >>
        sub == SubCallOverrides(auth_context)
        listed == revisions(entry.uid, sub, enrich[i].rv)
        mtime == get_file_mtime(entry.uid, sub, enrich[i].st)
        full == DictSet(DictSet(DictSet(item,
                    "uploading_user", PyStr(auth_context.user)),
                    "version", PyStr(listed.ret.items[1].version)),
                    "mtime", mtime.ret)
    IN IF entry.type # REGULAR_FILE
       THEN DirLoop(auth_context, entries, enrich, i + 1, cs, Append(result, item))
       ELSE IF listed.exc # "none" THEN After(cs, listed)
       ELSE IF listed.ret.items = <<>>
            THEN DirLoop(auth_context, entries, enrich, i + 1,
                         cs \o listed.calls, Append(result, item))
       ELSE IF mtime.exc # "none" THEN After(cs \o listed.calls, mtime)
       ELSE DirLoop(auth_context, entries, enrich, i + 1,
                    cs \o listed.calls \o mtime.calls, Append(result, full))

\* ls: the listing response; enrich: the answers to the follow-up calls.
dir(uid, show_deleted, ov, ls, enrich) ==
  LET auth_context == _create_auth_context(ov)
      request == Call(IF show_deleted THEN "ListDirectoryWithDeleted"
                      ELSE "ListDirectory",
                      auth_context, [uid |-> uid], ls)
  IN Except(Invoke(request,
                   IF ~ls.success THEN Return(<<request>>, PyFalse)
                   ELSE DirLoop(auth_context, ls.entries, enrich, 1,
                                <<request>>, <<>>)),
            PyFalse)

\* ------------------------------------------------- unimplemented methods

\* (Variant: the path is handed back as the identifier.)
path_to_uid_echo(path) == Return(<<>>, PyStr(path))
path_to_uid(path) == Return(<<>>, PyNone)
uid_to_path(uid) == Return(<<>>, PyList(<<>>))
mkdir_path(path, ov) == Return(<<>>, PyFalse)
get_parent(uid, ov) == Return(<<>>, PyStr(""))
assign_entity_to_permissions(entity_uid, role_name) == Return(<<>>, PyFalse)
create_permission_role(role_name, can_read, can_write, can_delete, can_get_revisions) ==
  Return(<<>>, PyFalse)
update_permission_role(role_name, can_read, can_write, can_delete, can_get_revisions) ==
  Return(<<>>, PyFalse)
delete_permission_role(role_name) == Return(<<>>, PyFalse)
remove_entity_from_permissions(entity_uid, role_name) == Return(<<>>, PyFalse)
get_permission_roles == Return(<<>>, PyList(<<>>))
get_entity_permissions(entity_uid) == Return(<<>>, PyList(<<>>))

\* ------------------------------------------------------------ the Session

\* x or default, for an optional string and for an optional list.
StrOr(x, default) == IF ~IsNone(x) /\ Val(x) # "" THEN Val(x) ELSE default
ListOr(x, default) == IF ~IsNone(x) /\ Val(x) # <<>> THEN Val(x) ELSE default

\* The channel: how many times its close method has been invoked.  A gRPC
\* channel's close is idempotent and returns None.
insecure_channel == [close_calls |-> 0]
channel_close(ch) == [ch EXCEPT !.close_calls = @ + 1]

\* ManagedFiles(user_roles, user_name, tenant, user_claims)
__init__(user_roles, user_name, tenant_, user_claims) ==
  /\ user = StrOr(Some(user_name), "user")
  /\ roles = ListOr(user_roles, <<>>)
  /\ claims = ListOr(user_claims, <<>>)
  /\ tenant = tenant_
  /\ channel = insecure_channel

\* (Variant: an argument is stored whenever it is not None.)
set_user_information_if_given(user_name, roles_, claims_) ==
  /\ user' = IF IsNone(user_name) THEN user ELSE Val(user_name)
  /\ roles' = IF IsNone(roles_) THEN roles ELSE Val(roles_)
  /\ claims' = IF IsNone(claims_) THEN claims ELSE Val(claims_)
  /\ UNCHANGED tenant
\* if user_name: self.user = user_name, and so on for roles and claims.
set_user_information(user_name, roles_, claims_) ==
  /\ user' = StrOr(user_name, user)
  /\ roles' = ListOr(roles_, roles)
  /\ claims' = ListOr(claims_, claims)
  /\ UNCHANGED tenant

\* (Variant: a second close is refused.)
close_once ==
  /\ channel' = channel_close(channel)
  /\ calls' = <<>>
  /\ ret' = PyNone
  /\ exc' = IF channel.close_calls > 0 THEN "ValueError" ELSE "none"
\* if hasattr(self, 'channel'): self.channel.close()
\* The attribute is set by __init__ and never deleted.
close ==
  /\ channel' = channel_close(channel)
  /\ calls' = <<>>
  /\ ret' = PyNone
  /\ exc' = "none"

\* return self
ManagedFilesObject == [tag |-> "ManagedFiles"]
__enter__ == Return(<<>>, ManagedFilesObject)

\* (Variant: the channel is closed only when the block ended normally.)
exit_after_success(exc_type) ==
  IF IsNone(exc_type) THEN close
  ELSE /\ calls' = <<>>
       /\ ret' = PyNone
       /\ exc' = "none"
       /\ UNCHANGED channel
\* self.close(); the method returns None.
__exit__(exc_type) == close

\* The with statement lets the block's exception go on to the caller unless
\* __exit__ returned a true value.
Truthy(v) == v.tag = "bool" /\ v.b
Suppressed(exc_type, exit_ret) == ~IsNone(exc_type) /\ Truthy(exit_ret)

\* ------------------------------------------------------------ inputs

UserArgs == {None, Some(""), Some("carol")}
TenantArgs == {None, Some(""), Some("t2")}
RolesArgs == {None, Some(<<>>), Some(<<"admin", "auditor">>)}

\* Claim list elements: strings, pairs and a mapping that collide on the keys
\* "a" and "b", and two shapes the loop has no branch for.
ClaimElems ==
  {ClaimStr("a"), ClaimStr("b"),
   ClaimTuple(<<"a", "x">>), ClaimTuple(<<"b", "y">>),
   ClaimDict(<< <<"b", "x">>, <<"a", "y">> >>),
   ClaimTuple(<<"a", "x", "y">>), ClaimInt}
ClaimLists == UNION {[1..n -> ClaimElems] : n \in 0..MaxClaims}
ClaimsArgs == {None} \cup {Some(cl) : cl \in ClaimLists}
FewClaimsArgs == {None, Some(<<>>), Some(<<ClaimTuple(<<"b", "y">>)>>)}

\* The override arguments _create_auth_context is called with directly.
AuthOverrides ==
  {Overrides(u, t, r, c) :
     u \in UserArgs, t \in TenantArgs, r \in RolesArgs, c \in FewClaimsArgs}
    \cup {Overrides(u, None, None, c) : u \in {None, Some("carol")}, c \in ClaimsArgs}

\* The override arguments the operations are called with.
OpOverrides ==
  {NoOverrides,
   Overrides(Some(""), Some(""), Some(<<>>), Some(<<>>)),
   Overrides(Some("carol"), Some("t2"), Some(<<"admin", "auditor">>),
             Some(<<ClaimTuple(<<"a", "x">>), ClaimStr("b")>>)),
   Overrides(Some("carol"), None, None, None),
   Overrides(None, Some("t2"), None, Some(<<ClaimDict(<< <<"a", "y">> >>)>>)),
   Overrides(None, None, Some(<<"admin">>), Some(<<ClaimInt, ClaimStr("a")>>))}
DirOverrides ==
  {ov \in OpOverrides : ov = NoOverrides \/ (~IsNone(ov.user) /\ ov.tenant = Some("t2"))}

File == <<"0a", "f1">>
Folder == <<"d1">>
Paths == {"", "/d1/a.txt"}
RoleNames == {"", "reader"}
NewNames == {None, Some(""), Some("n2")}
Backs == (0 - MaxBack - 1)..MaxBack
Payloads ==
  {None, Some(PayloadBytes(<<7, 8>>)), Some(PayloadStr(<<104, 233>>))}

\* ------------------------------------------------------------ actions

\* The caller, which makes one call at a time, makes a call and has it end:
\* what was called, with what, and what came of it.
Idle == op = "idle"
\* (Variant: the identity a remote call was made with becomes the default.)
DoneKeepsIdentity(o, i, r) ==
  /\ Idle
  /\ r.calls # <<>> => channel.close_calls = 0
  /\ op' = o
  /\ inp' = i
  /\ calls' = r.calls
  /\ ret' = r.ret
  /\ exc' = r.exc
  /\ user' = IF r.calls # <<>> THEN r.calls[1].auth.user ELSE user
  /\ UNCHANGED <<tenant, roles, claims, channel, with_block, threads>>
\* The stub is used only while the channel is open: the caller makes no call
\* that reaches the remote service after it has closed the adapter.
Done(o, i, r) ==
  /\ Idle
  /\ r.calls # <<>> => channel.close_calls = 0
  /\ op' = o
  /\ inp' = i
  /\ calls' = r.calls
  /\ ret' = r.ret
  /\ exc' = r.exc
  /\ UNCHANGED <<session, channel, with_block, threads>>

PyAuth(a) == [tag |-> "AuthenticationContext", auth |-> a]

\* (Variant: the resolved user is kept as the new default.)
CreateAuthContextKeepsUser ==
  \E ov \in AuthOverrides :
    /\ Idle
    /\ op' = "_create_auth_context"
    /\ inp' = [ov |-> ov]
    /\ calls' = <<>>
    /\ ret' = PyAuth(_create_auth_context(ov))
    /\ exc' = "none"
    /\ user' = _create_auth_context(ov).user
    /\ UNCHANGED <<tenant, roles, claims, channel, with_block, threads>>
CreateAuthContext ==
  \E ov \in AuthOverrides :
    Done("_create_auth_context", [ov |-> ov],
         Return(<<>>, PyAuth(_create_auth_context(ov))))

SetUserInformation ==
  \E u \in {None, Some(""), Some("alice")},
     r \in {None, Some(<<>>), Some(<<"user">>)},
     c \in {None, Some(<<>>), Some(<<ClaimTuple(<<"a", "x">>)>>)} :
    /\ Idle
    /\ set_user_information(u, r, c)
    /\ op' = "set_user_information"
    /\ inp' = [roles |-> r, claims |-> c, user_name |-> u]
    /\ calls' = <<>>
    /\ ret' = PyNone
    /\ exc' = "none"
    /\ UNCHANGED <<channel, with_block, threads>>

Close ==
  /\ Idle
  /\ channel.close_calls + (IF with_block = "in" THEN 1 ELSE 0) < MaxCloses
  /\ close
  /\ op' = "close"
  /\ inp' = <<>>
  /\ UNCHANGED <<session, with_block, threads>>

\* with mf: the block is entered,
Enter ==
  /\ Idle
  /\ with_block = "out"
  /\ channel.close_calls < MaxCloses
  /\ op' = "__enter__"
  /\ inp' = <<>>
  /\ calls' = __enter__.calls
  /\ ret' = __enter__.ret
  /\ exc' = __enter__.exc
  /\ with_block' = "in"
  /\ UNCHANGED <<session, channel, threads>>

\* and left: at the end of the block's statements, or by an exception, which
\* one of the adapter's methods or the block's own code raised.
Exit ==
  \E exc_type \in {None, Some("AssertionError"), Some("IndexError"),
                   Some("NotImplementedError")} :
    /\ with_block = "in"
    /\ \/ Idle /\ exc_type \in {None, Some("AssertionError")}
       \/ exc # "none" /\ exc_type = Some(exc)
    /\ __exit__(exc_type)
    /\ op' = "__exit__"
    /\ inp' = [exc_type |-> exc_type]
    /\ with_block' = "out"
    /\ UNCHANGED <<session, threads>>

PathToUid ==
  \E path \in Paths :
    Done("path_to_uid", [path |-> path], path_to_uid(path))

UidToPath ==
  \E uid \in {File, Folder} :
    Done("uid_to_path", [uid |-> uid], uid_to_path(uid))

MkdirPath ==
  \E path \in Paths, ov \in OpOverrides :
    Done("mkdir_path", [ov |-> ov, path |-> path], mkdir_path(path, ov))

GetParent ==
  \E uid \in {File, Folder}, ov \in OpOverrides :
    Done("get_parent", [ov |-> ov, uid |-> uid], get_parent(uid, ov))

AssignEntityToPermissions ==
  \E uid \in {File, Folder}, role_name \in RoleNames :
    Done("assign_entity_to_permissions",
         [entity_uid |-> uid, role_name |-> role_name],
         assign_entity_to_permissions(uid, role_name))

CreatePermissionRole ==
  \E role_name \in RoleNames, can_read, can_write \in BOOLEAN :
    Done("create_permission_role",
         [role_name |-> role_name, can_read |-> can_read,
          can_write |-> can_write],
         create_permission_role(role_name, can_read, can_write, FALSE, FALSE))

UpdatePermissionRole ==
  \E role_name \in RoleNames, can_read, can_write \in {None, Some(TRUE)} :
    Done("update_permission_role",
         [role_name |-> role_name, can_read |-> can_read,
          can_write |-> can_write],
         update_permission_role(role_name, can_read, can_write, None, None))

DeletePermissionRole ==
  \E role_name \in RoleNames :
    Done("delete_permission_role", [role_name |-> role_name],
         delete_permission_role(role_name))

RemoveEntityFromPermissions ==
  \E uid \in {File, Folder}, role_name \in RoleNames :
    Done("remove_entity_from_permissions",
         [entity_uid |-> uid, role_name |-> role_name],
         remove_entity_from_permissions(uid, role_name))

GetPermissionRoles ==
  Done("get_permission_roles", <<>>, get_permission_roles)

GetEntityPermissions ==
  \E uid \in {File, Folder} :
    Done("get_entity_permissions", [entity_uid |-> uid],
         get_entity_permissions(uid))

Mkdir ==
  \E ov \in OpOverrides, resp \in UidResponses :
    Done("mkdir", [ov |-> ov, name |-> "n1", parent_uuid |-> Folder],
         mkdir(Folder, "n1", ov, resp))

Dir ==
  \E ov \in DirOverrides, sd \in BOOLEAN, ls \in ListResponses :
    \E enrich \in EnrichFor(ls.entries) :
    Done("dir", [ov |-> ov, uid |-> Folder, show_deleted |-> sd],
         dir(Folder, sd, ov, ls, enrich))

EntityExists ==
  \E resp \in ExistsResponses :
    Done("entity_exists", [ov |-> NoOverrides, entity_uid |-> File],
         entity_exists(File, resp))

IsDir ==
  \E ov \in OpOverrides, resp \in StatResponses :
    Done("is_dir", [ov |-> ov, uid |-> File], is_dir(File, ov, resp))

Touch ==
  \E ov \in OpOverrides, resp \in UidResponses :
    Done("touch", [ov |-> ov, name |-> "n1", container_uuid |-> Folder],
         touch(Folder, "n1", ov, resp))

Put ==
  \E ov \in OpOverrides, resp \in SuccessResponses, payload \in Payloads,
     return_open \in BOOLEAN :
    Done("put", [ov |-> ov, uid |-> File, payload |-> payload,
                 return_open |-> return_open],
         put(File, payload, return_open, ov, resp))

Get ==
  \E ov \in OpOverrides, back \in Backs, rv \in VersionsResponses,
     gv \in DataResponses :
    Done("get", [ov |-> ov, uid |-> File, back |-> back],
         get(File, back, ov, rv, gv))

Revisions ==
  \E ov \in OpOverrides, resp \in VersionsResponses :
    Done("revisions", [ov |-> ov, uid |-> File], revisions(File, ov, resp))

GetFileMtime ==
  \E ov \in OpOverrides, resp \in StatResponses :
    Done("get_file_mtime", [ov |-> ov, uid |-> File],
         get_file_mtime(File, ov, resp))

GetFolderCdate ==
  \E ov \in OpOverrides, resp \in StatResponses :
    Done("get_folder_cdate", [ov |-> ov, uid |-> Folder],
         get_folder_cdate(Folder, ov, resp))

FileName ==
  \E ov \in OpOverrides, resp \in StatResponses :
    Done("file_name", [ov |-> ov, uid |-> File], file_name(File, ov, resp))

Move ==
  \E ov \in OpOverrides, new_name \in NewNames, mv \in SuccessResponses,
     rn \in SuccessResponses :
    Done("move", [ov |-> ov, source_uid |-> File, destination_uid |-> Folder,
                  new_name |-> new_name],
         move(File, Folder, new_name, ov, mv, rn))

Copy ==
  \E ov \in OpOverrides, resp \in SuccessResponses :
    Done("copy", [ov |-> ov, source_uid |-> File, destination_uid |-> Folder],
         copy(File, Folder, ov, resp))

Remove ==
  \E ov \in OpOverrides, st \in StatResponses, rm \in SuccessResponses :
    Done("remove", [ov |-> ov, uid |-> File], remove(File, ov, st, rm))

Rename ==
  \E ov \in OpOverrides, resp \in SuccessResponses :
    Done("rename", [ov |-> ov, uid |-> File, new_name |-> "n2"],
         rename(File, "n2", ov, resp))

SetMetadataValue ==
  \E ov \in OpOverrides, resp \in SuccessResponses :
    Done("set_metadata_value",
         [ov |-> ov, uid |-> File, value |-> "val", key |-> "k"],
         set_metadata_value(File, "k", "val", ov, resp))

GetMetadataValue ==
  \E ov \in OpOverrides, resp \in ValueResponses :
    Done("get_metadata_value", [ov |-> ov, uid |-> File, name |-> "k"],
         get_metadata_value(File, "k", ov, resp))

GetMetadataValues ==
  \E ov \in OpOverrides, resp \in MetadataResponses :
    Done("get_metadata_values", [ov |-> ov, uid |-> File],
         get_metadata_values(File, ov, resp))

DeleteMetadataValue ==
  \E ov \in OpOverrides, resp \in SuccessResponses :
    Done("delete_metadata_value", [ov |-> ov, uid |-> File, name |-> "k"],
         delete_metadata_value(File, "k", ov, resp))

GetMetadataForVersion ==
  \E ov \in OpOverrides, resp \in ValueResponses :
    Done("get_metadata_for_version",
         [ov |-> ov, uid |-> File, version |-> "v1", key |-> "k"],
         get_metadata_for_version(File, "v1", "k", ov, resp))

GetAllMetadataForVersion ==
  \E ov \in OpOverrides, resp \in MetadataResponses :
    Done("get_all_metadata_for_version",
         [ov |-> ov, uid |-> File, version |-> "v1"],
         get_all_metadata_for_version(File, "v1", ov, resp))

GrantPermission ==
  \E ov \in OpOverrides, resp \in SuccessResponses :
    Done("grant_permission",
         [ov |-> ov, resource_uid |-> File, principal |-> "dave", permission |-> 0],
         grant_permission(File, "dave", 0, ov, resp))

RevokePermission ==
  \E ov \in OpOverrides, resp \in SuccessResponses :
    Done("revoke_permission",
         [ov |-> ov, resource_uid |-> File, principal |-> "dave", permission |-> 0],
         revoke_permission(File, "dave", 0, ov, resp))

CheckPermission ==
  \E ov \in OpOverrides, resp \in CheckPermissionResponses :
    Done("check_permission",
         [ov |-> ov, resource_uid |-> File, required_permission |-> 0],
         check_permission(File, 0, ov, resp))

GetStorageUsage ==
  \E ov \in OpOverrides, resp \in StorageUsageResponses :
    Done("get_storage_usage", [ov |-> ov], get_storage_usage(ov, resp))

PurgeOldVersions ==
  \E ov \in OpOverrides, resp \in SuccessResponses :
    Done("purge_old_versions", [ov |-> ov, file_uid |-> File, keep_count |-> 1],
         purge_old_versions(File, 1, ov, resp))

TriggerSync ==
  \E ov \in OpOverrides, resp \in SuccessResponses :
    Done("trigger_sync", [ov |-> ov], trigger_sync(ov, resp))

UndeleteFile ==
  \E ov \in OpOverrides, resp \in SuccessResponses :
    Done("undelete_file", [ov |-> ov, file_uid |-> File],
         undelete_file(File, ov, resp))

RestoreToVersion ==
  \E ov \in OpOverrides, resp \in RestoreResponses :
    Done("restore_to_version",
         [ov |-> ov, version_timestamp |-> "v1", file_uid |-> File],
         restore_to_version(File, "v1", ov, resp))

\* The caller takes the outcome of the call and is free to make the next one.
Taken ==
  /\ ~Idle
  /\ op' = "idle"
  /\ inp' = <<>>
  /\ calls' = <<>>
  /\ ret' = PyNone
  /\ exc' = "none"
  /\ UNCHANGED <<session, channel, with_block, threads>>

\* --------------------------------------------- threads on one adapter

Threads == 1..NThreads

\* A thread between calls, and the local variables of a thread inside mkdir
\* or get: pc is the statement it is about to execute.
IdleThread == [pc |-> "idle"]
Running(t, o) == threads[t].pc # "idle" /\ threads[t].op = o

\* The overrides a thread calls with and what the service may answer it.
ThreadOverrides ==
  {NoOverrides,
   Overrides(Some("carol"), Some("t2"), None, Some(<<ClaimTuple(<<"a", "x">>)>>))}
ThreadUidResponses == {r \in UidResponses : r.success = (r.uid # <<"">>)}
ThreadVersionsResponses ==
  {r \in VersionsResponses : r.rpc_error \/ r.versions = VersionList(1)}
ThreadDataResponses ==
  {r \in DataResponses : r.rpc_error \/ (r.success /\ r.data # <<>>)}

\* mkdir from its try statement on, with the auth_context it built.
mkdir_try(auth_context, parent_uuid, name, resp) ==
  LET request == Call("MakeDirectory", auth_context,
                      [name |-> name, parent_uid |-> parent_uuid], resp)
  IN Except(Invoke(request,
                   IF resp.success THEN Return(<<request>>, PyStr(resp.uid))
                   ELSE Return(<<request>>, PyFalse)),
            PyFalse)

\* get from the guard on, with the auth_context it built and the versions
\* revisions returned to it.
get_fetch(auth_context, uid, back, versions, gv) ==
  LET request == Call("GetVersion", auth_context,
                      [uid |-> uid,
                       version_timestamp |-> Item(versions, back).version], gv)
  IN IF versions = <<>> \/ Len(versions) <= back THEN Return(<<>>, PyFalse)
     ELSE IF ~InRange(versions, back) THEN Raise(<<>>, "IndexError")
     ELSE Except(Invoke(request,
                        IF gv.success
                        THEN Return(<<request>>,
                                    PyBytesIO(Seek(Write(BytesIO, gv.data), 0)))
                        ELSE Return(<<request>>, PyFalse)),
                 PyFalse)

\* A thread calls mkdir or get.
ThreadStart(t) ==
  /\ threads[t].pc = "idle"
  /\ \E o \in {"mkdir", "get"}, ov \in ThreadOverrides :
       threads' = [threads EXCEPT ![t] =
                     [op |-> o, calls |-> <<>>, ret |-> PyNone, exc |-> "none",
                      ov |-> ov, versions |-> <<>>,
                      auth_context |-> None, back |-> 0, pc |-> "auth"]]
  /\ UNCHANGED <<session, channel, with_block, op, inp, calls, ret, exc>>

\* (Variant: the resolved user is kept on the adapter.)
ThreadAuthKeepsUser(t) ==
  /\ threads[t].pc = "auth"
  /\ threads' = [threads EXCEPT
                   ![t].auth_context = _create_auth_context(threads[t].ov),
                   ![t].pc = IF threads[t].op = "get" THEN "list" ELSE "call"]
  /\ user' = _create_auth_context(threads[t].ov).user
  /\ UNCHANGED <<tenant, roles, claims, channel, with_block,
                 op, inp, calls, ret, exc>>
\* auth_context = self._create_auth_context(user, tenant, roles, claims)
ThreadAuth(t) ==
  /\ threads[t].pc = "auth"
  /\ threads' = [threads EXCEPT
                   ![t].auth_context = _create_auth_context(threads[t].ov),
                   ![t].pc = IF threads[t].op = "get" THEN "list" ELSE "call"]
  /\ UNCHANGED <<session, channel, with_block, op, inp, calls, ret, exc>>

\* mkdir: the try statement.
ThreadCall(t) ==
  /\ Running(t, "mkdir") /\ threads[t].pc = "call"
  /\ \E resp \in ThreadUidResponses :
       LET r == mkdir_try(threads[t].auth_context, Folder, "n1", resp)
       IN threads' = [threads EXCEPT ![t].calls = r.calls, ![t].ret = r.ret,
                                     ![t].exc = r.exc, ![t].pc = "done"]
  /\ UNCHANGED <<session, channel, with_block, op, inp, calls, ret, exc>>

\* get: versions = self.revisions(uid, user=auth_context.user, ...)
ThreadList(t) ==
  /\ Running(t, "get") /\ threads[t].pc = "list"
  /\ \E rv \in ThreadVersionsResponses :
       LET listed == revisions(File, SubCallOverrides(threads[t].auth_context), rv)
       IN threads' = [threads EXCEPT ![t].calls = listed.calls,
                                     ![t].versions = listed.ret.items,
                                     ![t].pc = "fetch"]
  /\ UNCHANGED <<session, channel, with_block, op, inp, calls, ret, exc>>

\* get: the guard, versions[back] and the try statement.
ThreadFetch(t) ==
  /\ Running(t, "get") /\ threads[t].pc = "fetch"
  /\ \E gv \in ThreadDataResponses :
       LET r == get_fetch(threads[t].auth_context, File, threads[t].back,
                          threads[t].versions, gv)
       IN threads' = [threads EXCEPT ![t].calls = @ \o r.calls, ![t].ret = r.ret,
                                     ![t].exc = r.exc, ![t].pc = "done"]
  /\ UNCHANGED <<session, channel, with_block, op, inp, calls, ret, exc>>

\* The call has returned and the thread goes on.
ThreadReturn(t) ==
  /\ threads[t].pc = "done"
  /\ threads' = [threads EXCEPT ![t] = IdleThread]
  /\ UNCHANGED <<session, channel, with_block, op, inp, calls, ret, exc>>

Init ==
  /\ \E user_roles \in {None, Some(<<"user">>)}, user_name \in {"", "alice"},
        tenant_ \in {"", "t1"}, user_claims \in {None, Some(<<>>)} :
       __init__(user_roles, user_name, tenant_, user_claims)
  /\ with_block = "out"
  /\ threads = [t \in Threads |-> IdleThread]
  /\ op = "idle"
  /\ inp = <<>>
  /\ calls = <<>>
  /\ ret = PyNone
  /\ exc = "none"

Next ==
  \/ CreateAuthContext
  \/ SetUserInformation
  \/ Close
  \/ Enter
  \/ Exit
  \/ PathToUid
  \/ UidToPath
  \/ MkdirPath
  \/ GetParent
  \/ AssignEntityToPermissions
  \/ CreatePermissionRole
  \/ UpdatePermissionRole
  \/ DeletePermissionRole
  \/ RemoveEntityFromPermissions
  \/ GetPermissionRoles
  \/ GetEntityPermissions
  \/ Mkdir
  \/ Dir
  \/ EntityExists
  \/ IsDir
  \/ Touch
  \/ Put
  \/ Get
  \/ Revisions
  \/ GetFileMtime
  \/ GetFolderCdate
  \/ FileName
  \/ Move
  \/ Copy
  \/ Remove
  \/ Rename
  \/ SetMetadataValue
  \/ GetMetadataValue
  \/ GetMetadataValues
  \/ DeleteMetadataValue
  \/ GetMetadataForVersion
  \/ GetAllMetadataForVersion
  \/ GrantPermission
  \/ RevokePermission
  \/ CheckPermission
  \/ GetStorageUsage
  \/ PurgeOldVersions
  \/ TriggerSync
  \/ UndeleteFile
  \/ RestoreToVersion
  \/ Taken

Spec == Init /\ [][Next]_vars

\* ------------------------------------------------------ concurrent callers

\* Several threads call mkdir and get on the one adapter, each a statement at
\* a time; the single caller of Spec stays idle.
ConcNext ==
  \E t \in Threads :
    \/ ThreadStart(t)
    \/ ThreadAuth(t)
    \/ ThreadCall(t)
    \/ ThreadList(t)
    \/ ThreadFetch(t)
    \/ ThreadReturn(t)

ConcSpec == Init /\ [][ConcNext]_vars

\* ================================================================ claims

\* The AuthenticationContexts the last call built from its own override
\* arguments: the value _create_auth_context returned, or what the remote
\* calls carried (in get and dir the follow-up calls are made by helper methods
\* that are handed an identity of their own).
OwnAuths ==
  IF op = "_create_auth_context" THEN {ret.auth}
  ELSE IF op = "get"
       THEN {calls[i].auth : i \in {j \in 1..Len(calls) : calls[j].rpc = "GetVersion"}}
  ELSE IF op = "dir" THEN {calls[i].auth : i \in {j \in 1..Len(calls) : j = 1}}
  ELSE {calls[i].auth : i \in 1..Len(calls)}

\* The claim list the last call resolved to.
Resolved == IF IsNone(inp.ov.claims) THEN claims ELSE Val(inp.ov.claims)

WellShaped(e) ==
  e.kind \in {"str", "dict"} \/ (e.kind = "tuple" /\ Len(e.t) = 2)
Mentions(e, k) ==
  \/ e.kind = "str" /\ e.s = k
  \/ e.kind = "tuple" /\ Len(e.t) = 2 /\ e.t[1] = k
  \/ e.kind = "dict" /\ \E j \in 1..Len(e.d) : e.d[j][1] = k
ValueIn(e, k) ==
  IF e.kind = "str" THEN e.s
  ELSE IF e.kind = "tuple" THEN e.t[2]
  ELSE e.d[CHOOSE j \in 1..Len(e.d) : e.d[j][1] = k][2]
ClaimKeys == {"a", "b", "x", "y"}
LastMention(cl, k) ==
  CHOOSE i \in 1..Len(cl) :
    Mentions(cl[i], k) /\ \A j \in (i + 1)..Len(cl) : ~Mentions(cl[j], k)

\* m holds no key twice, holds exactly the keys the elements of cl mention,
\* and gives each the value of the last element that mentions it.
IsLastWinsMap(m, cl) ==
  /\ \A i, j \in 1..Len(m) : i # j => m[i][1] # m[j][1]
  /\ {m[i][1] : i \in 1..Len(m)}
       = {k \in ClaimKeys : \E i \in 1..Len(cl) : Mentions(cl[i], k)}
  /\ \A i \in 1..Len(m) : m[i][2] = ValueIn(cl[LastMention(cl, m[i][1])], m[i][1])

\* C1: for a claim list of strings, mappings and 2-tuples only, the claims map
\* of the AuthenticationContext is the left-to-right fold of the list: no key
\* occurs twice, the keys are those the elements set, and each key has the
\* value given by the last element of the list that sets it.
C1_ClaimsMapIsFold ==
  (op = "_create_auth_context" /\ \A i \in 1..Len(Resolved) : WellShaped(Resolved[i]))
    => IsLastWinsMap(ret.auth.claims, Resolved)

\* A string overridden by a later mapping that gives the same key another value.
C1_Witness ==
  /\ op = "_create_auth_context"
  /\ Resolved = <<ClaimStr("a"), ClaimDict(<< <<"b", "x">>, <<"a", "y">> >>)>>
  /\ Len(ret.auth.claims) = 2
  /\ DictGet(ret.auth.claims, "a") = "y"
  /\ DictGet(ret.auth.claims, "b") = "x"

\* C2: a field whose override is omitted takes the Session default (the claims
\* default normalised), whatever the other overrides are.
C2_OmittedTakesDefault ==
  \A auth \in OwnAuths :
    /\ IsNone(inp.ov.user) => auth.user = user
    /\ IsNone(inp.ov.tenant) => auth.tenant = tenant
    /\ IsNone(inp.ov.roles) => auth.roles = roles
    /\ IsNone(inp.ov.claims) => IsLastWinsMap(auth.claims, claims)

\* Tenant and claims omitted and defaulted while user and roles are overridden.
C2_Witness ==
  /\ op = "_create_auth_context"
  /\ IsNone(inp.ov.tenant) /\ IsNone(inp.ov.claims)
  /\ inp.ov.user = Some("carol") /\ ~IsNone(inp.ov.roles)
  /\ tenant = "t1" /\ ret.auth.tenant = "t1"
  /\ claims # <<>> /\ ret.auth.claims = << <<"a", "x">> >>

\* C3: a field whose override is supplied, an empty string or empty list
\* included, takes the supplied value.
C3_SuppliedTakesOverride ==
  \A auth \in OwnAuths :
    /\ ~IsNone(inp.ov.user) => auth.user = Val(inp.ov.user)
    /\ ~IsNone(inp.ov.tenant) => auth.tenant = Val(inp.ov.tenant)
    /\ ~IsNone(inp.ov.roles) => auth.roles = Val(inp.ov.roles)
    /\ (~IsNone(inp.ov.claims)
          /\ \A i \in 1..Len(Resolved) : WellShaped(Resolved[i]))
         => IsLastWinsMap(auth.claims, Val(inp.ov.claims))

\* C4: a claim list with an element that is no string, mapping or 2-tuple
\* makes _create_auth_context fail with InvalidClaimShape.
C4_BadShapeRejected ==
  (op = "_create_auth_context" /\ \E i \in 1..Len(Resolved) : ~WellShaped(Resolved[i]))
    => exc = "InvalidClaimShape"

\* The positions in the call log of the calls to a remote method.
CallsTo(rpc) == {i \in 1..Len(calls) : calls[i].rpc = rpc}
\* A remote call that completed, and one that completed with success.
Completed(c) == ~c.resp.rpc_error
Succeeded(c) == ~c.resp.rpc_error /\ c.resp.success

\* C5: mkdir and touch return the identifier of the response when the call
\* completes with success, and False when the success flag is false or the call
\* raises a transport error.
C5_CreateReturnsUidOrFalse ==
  op \in {"mkdir", "touch"} =>
    /\ Len(calls) = 1
    /\ exc = "none"
    /\ Succeeded(calls[1]) => ret = PyStr(calls[1].resp.uid)
    /\ ~Succeeded(calls[1]) => ret = PyFalse

\* mkdir answered with success false and an identifier all the same.
C5_Witness ==
  /\ op = "mkdir"
  /\ Completed(calls[1]) /\ ~calls[1].resp.success
  /\ calls[1].resp.uid = <<"uid", "9">>
  /\ ret = PyFalse

\* C6: whichever of its remote calls fails with grpc.RpcError, a public
\* operation returns a value and lets no exception out.
C6_TransportErrorNeverPropagates ==
  (\E i \in 1..Len(calls) : calls[i].resp.rpc_error)
    => exc = "none" /\ ret.tag \in {"bool", "list", "dict", "NoneType"}

\* get loses its second call, the content fetch, to a transport error.
C6_Witness ==
  /\ op = "get"
  /\ Len(calls) = 2
  /\ calls[2].rpc = "GetVersion" /\ calls[2].resp.rpc_error
  /\ exc = "none"
  /\ ret = PyFalse

\* What each single-call operation returns from its except clause.
OnTransportError(o) ==
  IF o \in {"revisions", "file_name"} THEN PyList(<<>>)
  ELSE IF o \in {"get_metadata_values", "get_all_metadata_for_version"}
       THEN PyDict(<<>>)
  ELSE IF o \in {"get_file_mtime", "get_folder_cdate", "get_metadata_value",
                 "get_metadata_for_version", "get_storage_usage",
                 "restore_to_version"}
       THEN PyNone
  ELSE PyFalse
SingleCall ==
  {"mkdir", "is_dir", "touch", "put", "revisions", "get_file_mtime",
   "get_folder_cdate", "file_name", "copy", "rename", "set_metadata_value",
   "get_metadata_value", "get_metadata_values", "delete_metadata_value",
   "get_metadata_for_version", "get_all_metadata_for_version",
   "grant_permission", "revoke_permission", "check_permission",
   "get_storage_usage", "purge_old_versions", "trigger_sync", "undelete_file",
   "restore_to_version"}

\* C7: a response whose success flag is false yields the value the operation
\* returns on a transport failure; check_permission returns False when the
\* success flag is false, whatever has_permission says.
C7_AppFailureAsTransportFailure ==
  (op \in SingleCall /\ Len(calls) = 1) =>
    /\ calls[1].resp.rpc_error => ret = OnTransportError(op)
    /\ (Completed(calls[1]) /\ ~calls[1].resp.success)
         => ret = OnTransportError(op)

\* C8: with n versions listed and back offset k, 0 <= k < n makes get issue
\* exactly one GetVersion call, for version k of the list, and return on its
\* success a buffer with the response's data at position 0; k >= n makes get
\* return False without a GetVersion call.
C8_GetFetchesVersionAtOffset ==
  (op = "get" /\ Succeeded(calls[1])) =>
    LET vs == calls[1].resp.versions
        k == inp.back
    IN /\ (0 <= k /\ k < Len(vs)) =>
            /\ CallsTo("GetVersion") = {2} /\ Len(calls) = 2
            /\ calls[2].req.version_timestamp = vs[k + 1]
            /\ calls[2].req.uid = inp.uid
            /\ Succeeded(calls[2]) =>
                 ret = [tag |-> "BytesIO", data |-> calls[2].resp.data, pos |-> 0]
       /\ k >= Len(vs) => ret = PyFalse /\ CallsTo("GetVersion") = {} /\ exc = "none"

\* Two versions listed and the previous one read, with content.
C8_Witness ==
  /\ op = "get"
  /\ inp.back = 1
  /\ Succeeded(calls[1]) /\ calls[1].resp.versions = <<"v2", "v1">>
  /\ Len(calls) = 2 /\ calls[2].req.version_timestamp = "v1"
  /\ ret = [tag |-> "BytesIO", data |-> <<7, 8>>, pos |-> 0]

C10_RemoveByType ==
  op = "remove" =>
    /\ CallsTo("Stat") = {1}
    /\ (Succeeded(calls[1]) /\ calls[1].resp.info.type = DIRECTORY) =>
         /\ CallsTo("RemoveDirectory") = {2} /\ CallsTo("RemoveFile") = {}
         /\ Completed(calls[2]) => ret = PyBool(calls[2].resp.success)
    /\ (Succeeded(calls[1]) /\ calls[1].resp.info.type = REGULAR_FILE) =>
         /\ CallsTo("RemoveFile") = {2} /\ CallsTo("RemoveDirectory") = {}
         /\ Completed(calls[2]) => ret = PyBool(calls[2].resp.success)
    /\ calls[1].resp.rpc_error =>
         /\ ret = PyFalse
         /\ CallsTo("RemoveFile") = {} /\ CallsTo("RemoveDirectory") = {}
    /\ exc = "none"

\* A directory removed through RemoveDirectory.
C10_Witness ==
  /\ op = "remove"
  /\ Succeeded(calls[1]) /\ calls[1].resp.info.type = DIRECTORY
  /\ Len(calls) = 2 /\ calls[2].rpc = "RemoveDirectory"
  /\ ret = PyBool(TRUE)

\* C11: a second or later release of the adapter, by close or by leaving a
\* with block, completes without an exception.
C11_CloseIdempotent ==
  (op \in {"close", "__exit__"} /\ channel.close_calls >= 2) => exc = "none"

\* close called on an adapter that was closed before.
C11_Witness ==
  /\ op = "close"
  /\ channel.close_calls = 2
  /\ ret = PyNone
  /\ exc = "none"

\* C12: the close method of the channel is invoked at most once over the
\* lifetime of the adapter, however many times close and __exit__ are called.
C12_ChannelClosedOnce ==
  channel.close_calls <= 1

\* C13: leaving a with block, normally or by an exception, invokes the close
\* method of the channel, and __exit__ returns no true value, so that the
\* exception of the block goes on to the caller.
C13_WithBlockReleases ==
  [][(op' = "__exit__" /\ op # "__exit__")
       => /\ channel'.close_calls = channel.close_calls + 1
          /\ exc' = "none"
          /\ ~Suppressed(inp'.exc_type, ret')]_vars

\* A block left by the NotImplementedError of put: the channel is closed and
\* the exception is not suppressed.
C13_Witness ==
  /\ op = "__exit__"
  /\ inp.exc_type = Some("NotImplementedError")
  /\ channel.close_calls = 1
  /\ with_block = "out"
  /\ ~Suppressed(inp.exc_type, ret)

\* The operations that make their one remote call themselves.
NonComposite == SingleCall \cup {"entity_exists"}

C15_ListingFailureIsEmptyList ==
  (op \in {"dir", "revisions"} /\ ~Succeeded(calls[1])) => ret = PyList(<<>>)

\* C16: put with return_open raises NotImplementedError without a remote
\* call, and no other call of any operation lets an exception out.
C16_OnlyStreamingModeRaises ==
  /\ (op = "put" /\ inp.return_open)
       => exc = "NotImplementedError" /\ calls = <<>>
  /\ exc # "none" => op = "put" /\ inp.return_open

\* The constant each unimplemented method returns.
StubConstant ==
  [path_to_uid |-> PyNone,
   uid_to_path |-> PyList(<<>>),
   mkdir_path |-> PyFalse,
   get_parent |-> PyStr(""),
   assign_entity_to_permissions |-> PyFalse,
   create_permission_role |-> PyFalse,
   update_permission_role |-> PyFalse,
   delete_permission_role |-> PyFalse,
   remove_entity_from_permissions |-> PyFalse,
   get_permission_roles |-> PyList(<<>>),
   get_entity_permissions |-> PyList(<<>>)]

C18_SessionFrame ==
  [][op' # "set_user_information" => session' = session]_vars

\* mkdir made as carol, with a tenant, roles and claims of the call, while the
\* defaults still name another user and tenant.
C18_Witness ==
  /\ op = "mkdir"
  /\ inp.ov.user = Some("carol") /\ inp.ov.tenant = Some("t2")
  /\ calls[1].auth.user = "carol" /\ calls[1].auth.tenant = "t2"
  /\ Succeeded(calls[1])
  /\ user = "alice" /\ tenant = "t1" /\ roles = <<"user">>

SessionIdentity ==
  [user |-> user, tenant |-> tenant, roles |-> roles,
   claims |-> claims_map(claims)]

ListedEntries == calls[1].resp.entries
Leaves == {i \in 1..Len(ListedEntries) : ListedEntries[i].type = REGULAR_FILE}

\* C22: a listing that succeeds issues one listing call, ListDirectoryWithDeleted
\* when show_deleted is set and ListDirectory otherwise, and after it one
\* ListVersions call and one Stat call for every regular file among the
\* entries, and no call for the other entries.
C22_DirCallsPerEntry ==
  (op = "dir" /\ Succeeded(calls[1])) =>
    /\ CallsTo(IF inp.show_deleted THEN "ListDirectoryWithDeleted"
               ELSE "ListDirectory") = {1}
    /\ CallsTo(IF inp.show_deleted THEN "ListDirectory"
               ELSE "ListDirectoryWithDeleted") = {}
    /\ Cardinality(CallsTo("ListVersions")) = Cardinality(Leaves)
    /\ Cardinality(CallsTo("Stat")) = Cardinality(Leaves)
    /\ Len(calls) = 1 + 2 * Cardinality(Leaves)

\* C23: when the listing call succeeds, dir returns one item per entry, in the
\* order of the entries, whatever the follow-up calls answer, and an item has a
\* version or mtime field only with a value: never None, never empty.
C23_DirOmitsUnavailableFields ==
  (op = "dir" /\ Succeeded(calls[1])) =>
    /\ ret.tag = "list"
    /\ Len(ret.items) = Len(ListedEntries)
    /\ \A i \in 1..Len(ret.items) :
         /\ DictGet(ret.items[i], "uid") = PyStr(ListedEntries[i].uid)
         /\ \A k \in {"version", "mtime"} :
              DictHas(ret.items[i], k)
                => DictGet(ret.items[i], k) \notin {PyNone, PyStr("")}

\* C24: when the ListVersions call of get raises, reports failure or lists no
\* version, get returns False after that one call, whatever the back offset.
C24_GetWithoutVersions ==
  (op = "get" /\ (~Succeeded(calls[1]) \/ calls[1].resp.versions = <<>>)) =>
    /\ calls[1].rpc = "ListVersions"
    /\ Len(calls) = 1
    /\ ret = PyFalse
    /\ exc = "none"

\* get with a negative offset after a listing that succeeded with no version.
C24_Witness ==
  /\ op = "get"
  /\ inp.back < 0
  /\ Succeeded(calls[1]) /\ calls[1].resp.versions = <<>>
  /\ Len(calls) = 1
  /\ ret = PyFalse

\* C25: a Stat response with success false makes remove return False without
\* a RemoveDirectory or RemoveFile call.
C25_RemoveAfterFailedStat ==
  (op = "remove" /\ Completed(calls[1]) /\ ~calls[1].resp.success) =>
    /\ ret = PyFalse
    /\ CallsTo("RemoveFile") = {} /\ CallsTo("RemoveDirectory") = {}

\* C26: on a ListVersions response with success true, revisions returns one
\* entry per version of the response, in the order of the response, with that
\* version as its version field and the user of the call's
\* AuthenticationContext as its user field.
C26_RevisionsShape ==
  (op = "revisions" /\ Succeeded(calls[1])) =>
    /\ ret.tag = "list"
    /\ Len(ret.items) = Len(calls[1].resp.versions)
    /\ \A i \in 1..Len(ret.items) :
         /\ ret.items[i].version = calls[1].resp.versions[i]
         /\ ret.items[i].user = calls[1].auth.user
    /\ calls[1].auth.user = actual_user(inp.ov.user)

\* Two versions listed for an overriding user.
C26_Witness ==
  /\ op = "revisions"
  /\ inp.ov.user = Some("carol")
  /\ Succeeded(calls[1])
  /\ calls[1].resp.versions = <<"v2", "v1">>
  /\ Len(ret.items) = 2
  /\ ret.items[1] = [user |-> "carol", name |-> <<"f1">>, version |-> "v2"]
  /\ ret.items[2].version = "v1"

\* C27: all the remote calls of one invocation of get or dir carry the same
\* AuthenticationContext: user, tenant, roles and claims map.
C27_SameAuthInSubCalls ==
  op \in {"get", "dir"} =>
    \A i, j \in 1..Len(calls) : calls[i].auth = calls[j].auth

\* C28: the tenant field of a StorageUsageRequest or TriggerSyncRequest is the
\* tenant of the AuthenticationContext of the same request.
C28_RequestTenantIsAuthTenant ==
  op \in {"get_storage_usage", "trigger_sync"} =>
    \A i \in 1..Len(calls) : calls[i].req.tenant = calls[i].auth.tenant

\* C29: get returns a buffer or False and raises nothing, whatever the back
\* offset and the listed versions, and makes no GetVersion call for a negative
\* offset.
C29_GetNegativeBack ==
  op = "get" =>
    /\ exc = "none"
    /\ ret.tag = "BytesIO" \/ ret = PyFalse
    /\ inp.back < 0 => CallsTo("GetVersion") = {}

\* C30: move called with a new name returns False only when neither its Move
\* call nor its Rename call has succeeded.
C30_MoveNeverPartial ==
  (op = "move" /\ ~IsNone(inp.new_name) /\ Val(inp.new_name) # ""
     /\ ret = PyFalse)
    => \A i \in 1..Len(calls) : ~Succeeded(calls[i])

\* What the call of a thread does when it runs alone against the responses
\* the thread's remote calls received.
Alone(th) ==
  IF th.op = "mkdir" THEN mkdir(Folder, "n1", th.ov, th.calls[1].resp)
  ELSE get(File, th.back, th.ov, th.calls[1].resp,
           IF Len(th.calls) = 2 THEN th.calls[2].resp
           ELSE [rpc_error |-> TRUE, success |-> FALSE, data |-> <<>>])

\* C21: however the statements of concurrent calls of mkdir and get on one
\* adapter interleave, a call that has returned has sent the requests and
\* returned the value it sends and returns when it runs alone against the same
\* responses.
C21_ConcurrentCallsIndependent ==
  \A t \in Threads :
    threads[t].pc = "done"
      => /\ threads[t].calls = Alone(threads[t]).calls
         /\ threads[t].ret = Alone(threads[t]).ret
         /\ threads[t].exc = Alone(threads[t]).exc

\* A get as carol that returned its buffer while a mkdir of another thread,
\* made without overrides, was between its auth_context and its call.
C21_Witness ==
  /\ threads[1].pc = "done" /\ threads[1].op = "get"
  /\ threads[1].ov.user = Some("carol")
  /\ Len(threads[1].calls) = 2
  /\ threads[1].calls[1].auth.user = "carol"
  /\ threads[1].ret.tag = "BytesIO"
  /\ threads[2].pc = "call" /\ threads[2].op = "mkdir"
  /\ threads[2].ov = NoOverrides
  /\ threads[2].auth_context.user = user

====
